---------------------------- MODULE Spec2Model ----------------------------
(***************************************************************************)
(* Model of MINOR/Ckks-RNS/Ckks.py: CKKS encryption of two hospitals'      *)
(* logistic-regression weight vectors, homomorphic sum / average on the    *)
(* aggregator side, and decryption of the aggregate into CSV files.        *)
(*                                                                         *)
(* Real numbers are exact rationals num/den: a ciphertext carries the      *)
(* numerators of its slots and one common denominator (CKKS noise is not   *)
(* modelled); weights are integers counted in a fixed unit (halves).       *)
(* Pyfhel objects are records; the file system is a set of variables       *)
(* (keyDir, ctDir, globalDir).                                             *)
(***************************************************************************)
EXTENDS Integers, Sequences, FiniteSets, TLC

VARIABLES
    probe,      \* SpecCsv: a weights CSV and what the two CSV readers return
    inputs,     \* main: args.h1 / args.h2 (a CSV, or Missing), do_sum, verify
    keyDir,     \* KEY_DIR: key id stored in each of the three key files
    ctDir,      \* CT_DIR and the *.ct files of GLOBAL_DIR
    globalDir,  \* GLOBAL_DIR: global_weights.csv, global_weights_named.csv
    nextKey,    \* the key pair the next keyGen() draws
    op,         \* the operation in progress (its arguments, locals, position)
    main,       \* main(): its position and its locals ct1, ct2, global_ct
    hist,       \* history of the run (what was executed, read, written)
    procs       \* SpecConc: the two concurrent encrypt_weights_csv calls

vars == <<probe, inputs, keyDir, ctDir, globalDir, nextKey, op, main, hist, procs>>

-----------------------------------------------------------------------------
(* Bounds *)

\* Slots of one ciphertext: poly_degree / 2 in the code (2^14), scaled down.
NSlots == 3
\* Rows of a weights CSV handed to the two CSV readers.
MaxCsvRows == 3
\* Length of the list of ciphertext paths handed to aggregate_ciphertexts.
MaxPaths == 3
\* Operations a caller of the API invokes one after the other.
MaxCalls == 2

\* scale_bits of keygen_if_missing
ScaleBits == 40

-----------------------------------------------------------------------------
(* Weights CSV files and the two readers *)

NoFeature == ""
FeatureNames == {"age", "bmi", "Intercept", "INTERCEPT"}
CoefVals == {1, 2, 3}

SeqsUpTo(S, n) == UNION {[1..k -> S] : k \in 1..n}

\* A data frame: which of the columns exist, and the rows in file order.
CsvOf(hasFeature, hasCoef, rows) ==
    [hasFeature |-> hasFeature, hasCoef |-> hasCoef, rows |-> rows]

AllCsvs ==
    {CsvOf(TRUE, c, r) : c \in BOOLEAN,
        r \in SeqsUpTo([Feature : FeatureNames, Coefficient : CoefVals], MaxCsvRows)}
    \cup
    {CsvOf(FALSE, c, r) : c \in BOOLEAN,
        r \in SeqsUpTo([Feature : {NoFeature}, Coefficient : CoefVals], MaxCsvRows)}

\* str.lower() on the feature names that occur
Lower(s) ==
    CASE s = "Intercept" -> "intercept"
      [] s = "INTERCEPT" -> "intercept"
      [] OTHER -> s

\* _find_coef_column: raises ValueError when no coefficient column exists
find_coef_column_ok(df) == df.hasCoef

IsIntercept(r) == Lower(r.Feature) = "intercept"
NotIntercept(r) == ~IsIntercept(r)

\* mask_int.any()
MaskAny(df) == \E i \in 1..Len(df.rows) : IsIntercept(df.rows[i])

CoefOf(rows) == [i \in 1..Len(rows) |-> rows[i].Coefficient]
FeatureOf(rows) == [i \in 1..Len(rows) |-> rows[i].Feature]

\* seq[:-1]
DropLast(s) == SubSeq(s, 1, Len(s) - 1)

\* f"f{i}"
FName(i) == <<"f0", "f1", "f2", "f3", "f4", "f5", "f6", "f7">>[i + 1]

\* A faulty variant: it reads the intercept from the last row although an explicit
\* Intercept row exists.
weights_csv_to_vector_LastRow(df) ==
    IF df.hasFeature /\ MaskAny(df)
    THEN CoefOf(SelectSeq(df.rows, NotIntercept))
             \o <<df.rows[Len(df.rows)].Coefficient>>
    ELSE DropLast(CoefOf(df.rows)) \o <<df.rows[Len(df.rows)].Coefficient>>

weights_csv_to_vector(df) ==
    IF df.hasFeature /\ MaskAny(df)
    THEN CoefOf(SelectSeq(df.rows, NotIntercept))
             \o <<SelectSeq(df.rows, IsIntercept)[1].Coefficient>>
    ELSE DropLast(CoefOf(df.rows)) \o <<df.rows[Len(df.rows)].Coefficient>>

weights_csv_feature_names(df) ==
    (IF df.hasFeature
     THEN IF MaskAny(df)
          THEN FeatureOf(SelectSeq(df.rows, NotIntercept))
          ELSE DropLast(FeatureOf(df.rows))
     ELSE [i \in 1..(Len(df.rows) - 1) |-> FName(i - 1)])
    \o <<"Intercept">>

-----------------------------------------------------------------------------
(* Pyfhel objects *)

\* An optional value is the empty set or a singleton.
None == {}
Some(x) == {x}
The(S) == CHOOSE x \in S : TRUE

\* Content of ckks_context.bin: the parameters contextGen was called with.
ContextParams == [scheme |-> "CKKS", scale_bits |-> ScaleBits]

KeyFiles == {"ckks_context.bin", "ckks_public.key", "ckks_secret.key"}
NoKeys == [f \in KeyFiles |-> None]

\* Pyfhel(): a handle with no context and no keys
Pyfhel == [ctx |-> None, pub |-> None, sec |-> None]

\* HE.encodeVec(vec): the vector fills the first slots, the rest are 0;
\* encoding raises when the vector has more entries than slots.
encode_fits(vec) == Len(vec) <= NSlots
encodeVec(vec) == [i \in 1..NSlots |-> IF i <= Len(vec) THEN vec[i] ELSE 0]

\* HE.encryptPtxt(ptxt): a fresh ciphertext under the handle's public key
encryptPtxt(HE, ptxt) ==
    [key |-> The(HE.pub), slots |-> ptxt, den |-> 1,
     scale_bits |-> The(HE.ctx).scale_bits, level |-> 0]

\* Key of a sum: the common key, and no key at all (0) when the two
\* ciphertexts were encrypted under different keys.
SumKey(a, c) == IF a.key = c.key THEN a.key ELSE 0

\* A faulty variant: it rescales after every addition.
ctxt_add_Rescaling(a, c) ==
    [a EXCEPT !.slots = [i \in 1..NSlots |-> a.slots[i] * c.den + c.slots[i] * a.den],
              !.den = a.den * c.den,
              !.key = SumKey(a, c),
              !.level = a.level + 1]

\* agg += c (PyCtxt.__iadd__): slot-wise sum, scale and level unchanged
ctxt_add(a, c) ==
    [a EXCEPT !.slots = [i \in 1..NSlots |-> a.slots[i] * c.den + c.slots[i] * a.den],
              !.den = a.den * c.den,
              !.key = SumKey(a, c)]

\* agg *= 1.0 / n (PyCtxt.__imul__ with a number: the number is encoded at
\* the context's scale and multiplied in; no rescale is requested, so the
\* scales multiply and the level stays)
ctxt_mul_scalar(a, n) ==
    [a EXCEPT !.den = a.den * n, !.scale_bits = a.scale_bits + ScaleBits]

\* HE.decryptFrac(ctxt): decrypts and decodes; the CKKS decoder returns one
\* value per slot of the ciphertext (poly_degree / 2 of them, here NSlots),
\* not only the entries that were encoded.  Values are num/den; under
\* another secret key they are unrelated to the plaintext.
decryptFrac(HE, ctxt) ==
    [i \in 1..NSlots |->
        IF HE.sec = Some(ctxt.key)
        THEN [num |-> ctxt.slots[i], den |-> ctxt.den]
        ELSE [num |-> ctxt.key + i, den |-> 1]]

-----------------------------------------------------------------------------
(* Key management *)

AllKeyFilesExist(kd) == \A f \in KeyFiles : kd[f] # None

\* keygen_if_missing: load the three files when all exist, otherwise
\* generate a context and a key pair and save them.  Returns the handle,
\* the key directory afterwards and the next unused key id.
keygen_if_missing(kd, fresh) ==
    IF AllKeyFilesExist(kd)
    THEN [HE |-> [ctx |-> kd["ckks_context.bin"], pub |-> kd["ckks_public.key"],
                  sec |-> kd["ckks_secret.key"]],
          keyDir |-> kd, nextKey |-> fresh, reads |-> KeyFiles, writes |-> {}]
    ELSE [HE |-> [ctx |-> Some(ContextParams), pub |-> Some(fresh), sec |-> Some(fresh)],
          keyDir |-> [f \in KeyFiles |->
                         IF f = "ckks_context.bin" THEN Some(ContextParams) ELSE Some(fresh)],
          nextKey |-> fresh + 1, reads |-> {}, writes |-> KeyFiles]

\* The files a loader opens: in order, up to the first one that is missing
RECURSIVE Opened(_, _)
Opened(kd, files) ==
    IF files = <<>> THEN {}
    ELSE IF kd[Head(files)] = None THEN {Head(files)}
    ELSE {Head(files)} \cup Opened(kd, Tail(files))

\* A faulty variant: it restores the secret key on the server as well.
load_for_server_WithSecret(kd) ==
    [ok |-> AllKeyFilesExist(kd),
     HE |-> [ctx |-> kd["ckks_context.bin"], pub |-> kd["ckks_public.key"],
             sec |-> kd["ckks_secret.key"]],
     reads |-> Opened(kd, <<"ckks_context.bin", "ckks_public.key", "ckks_secret.key">>)]

\* load_for_server: context + public key; raises when one of them is missing
load_for_server(kd) ==
    [ok |-> kd["ckks_context.bin"] # None /\ kd["ckks_public.key"] # None,
     HE |-> [Pyfhel EXCEPT !.ctx = kd["ckks_context.bin"], !.pub = kd["ckks_public.key"]],
     reads |-> Opened(kd, <<"ckks_context.bin", "ckks_public.key">>)]

\* load_for_decrypt: context + public + secret key
load_for_decrypt(kd) ==
    [ok |-> AllKeyFilesExist(kd),
     HE |-> [ctx |-> kd["ckks_context.bin"], pub |-> kd["ckks_public.key"],
             sec |-> kd["ckks_secret.key"]],
     reads |-> Opened(kd, <<"ckks_context.bin", "ckks_public.key", "ckks_secret.key">>)]

-----------------------------------------------------------------------------
(* The operation in progress *)

PartyCts == {"hospital1.ct", "hospital2.ct"}
GlobalCts == {"global_avg.ct", "global_sum.ct"}
CtPaths == PartyCts \cup GlobalCts

NoFile == [exists |-> FALSE, df |-> CsvOf(FALSE, FALSE, <<>>)]
FileOf(df) == [exists |-> TRUE, df |-> df]

NoCtxt == [key |-> 0, slots |-> <<>>, den |-> 1, scale_bits |-> 0, level |-> 0]

Idle ==
    [name |-> "none", pc |-> "idle", status |-> "idle", err |-> "",
     weights_csv |-> NoFile, out_name |-> "", verify |-> FALSE,
     ct_paths |-> <<>>, rest |-> <<>>, average |-> FALSE,
     ct_path |-> "", canonical_features |-> <<>>,
     HE |-> Pyfhel, vec |-> <<>>, agg |-> NoCtxt, before_mul |-> NoCtxt,
     i |-> 1, adds |-> 0, muls |-> 0, failed |-> {}, ret |-> <<>>]

Running == op.status = "running"

\* A faulty variant: it reports success although the exception was raised.
Raise_Ignored(o, e, stage) ==
    [o EXCEPT !.status = "ok", !.pc = "returned", !.failed = @ \cup {stage}]

\* raise: the exception leaves the operation, which ends in error e
Raise(o, e, stage) ==
    [o EXCEPT !.status = "error", !.pc = "raised", !.err = e,
              !.failed = @ \cup {stage}]

\* return value: the operation ends successfully
Return(o, value) == [o EXCEPT !.status = "ok", !.pc = "returned", !.ret = value]

Executed(name) == [hist EXCEPT !.executed = @ \cup {name}]

-----------------------------------------------------------------------------
(* encrypt_weights_csv(weights_csv, out_name, verify) *)

StartEncrypt(file, out_name, verify) ==
    [Idle EXCEPT !.name = "encrypt_weights_csv", !.pc = "keygen", !.status = "running",
                 !.weights_csv = file, !.out_name = out_name, !.verify = verify]

\* HE = keygen_if_missing()
EncKeygen ==
    /\ Running /\ op.name = "encrypt_weights_csv" /\ op.pc = "keygen"
    /\ LET r == keygen_if_missing(keyDir, nextKey) IN
        /\ keyDir' = r.keyDir
        /\ nextKey' = r.nextKey
        /\ op' = [op EXCEPT !.HE = r.HE, !.pc = "vector"]
        /\ hist' = [hist EXCEPT
                      !.keyReads = @ \cup {<<op.name, f>> : f \in r.reads},
                      !.written = @ \cup r.writes]
    /\ UNCHANGED <<probe, inputs, ctDir, globalDir, main, procs>>

\* vec = weights_csv_to_vector(weights_csv)
EncVector ==
    /\ Running /\ op.name = "encrypt_weights_csv" /\ op.pc = "vector"
    /\ op' = IF ~op.weights_csv.exists
             THEN Raise(op, "FileNotFoundError", "read_csv")
             ELSE IF ~find_coef_column_ok(op.weights_csv.df)
             THEN Raise(op, "ValueError: Coefficient column not found", "find_coef_column")
             ELSE [op EXCEPT !.vec = weights_csv_to_vector(op.weights_csv.df),
                             !.pc = "encrypt"]
    /\ UNCHANGED <<probe, inputs, keyDir, ctDir, globalDir, nextKey, main, hist, procs>>

\* ptxt = HE.encodeVec(vec); ctxt = HE.encryptPtxt(ptxt); ctxt.save(out_path)
EncEncrypt ==
    /\ Running /\ op.name = "encrypt_weights_csv" /\ op.pc = "encrypt"
    /\ IF ~encode_fits(op.vec)
       THEN /\ op' = Raise(op, "ValueError: too many values", "encodeVec")
            /\ UNCHANGED <<ctDir, hist>>
       ELSE LET ctxt == encryptPtxt(op.HE, encodeVec(op.vec)) IN
            /\ ctDir' = [ctDir EXCEPT ![op.out_name] = Some(ctxt)]
            /\ hist' = [hist EXCEPT !.written = @ \cup {op.out_name},
                                    !.plain = [@ EXCEPT ![op.out_name] = op.vec]]
            /\ op' = IF op.verify
                     THEN [op EXCEPT !.agg = ctxt, !.pc = "verify"]
                     ELSE Return([op EXCEPT !.agg = ctxt], op.out_name)
    /\ UNCHANGED <<probe, inputs, keyDir, globalDir, nextKey, main, procs>>

\* if verify: try: dec = HE.decryptFrac(ctxt) ... except Exception: print(...)
\* The decrypt-and-print either goes through or raises; the exception is
\* caught and the operation returns out_path all the same.
EncVerify ==
    /\ Running /\ op.name = "encrypt_weights_csv" /\ op.pc = "verify"
    /\ \E raised \in BOOLEAN :
          op' = IF raised
                THEN Return([op EXCEPT !.failed = @ \cup {"verify"}], op.out_name)
                ELSE Return(op, op.out_name)
    /\ UNCHANGED <<probe, inputs, keyDir, ctDir, globalDir, nextKey, main, hist, procs>>

-----------------------------------------------------------------------------
(* aggregate_ciphertexts(ct_paths, average) *)

StartAggregate(ct_paths, average) ==
    [Idle EXCEPT !.name = "aggregate_ciphertexts", !.pc = "server", !.status = "running",
                 !.ct_paths = ct_paths, !.average = average]

\* A faulty variant: it adds every path of the list, the first one again.
aggregate_rest_All(ct_paths) == ct_paths

\* ct_paths[1:]
aggregate_rest(ct_paths) == Tail(ct_paths)

\* if average: agg *= (1.0 / len(ct_paths))
aggregate_scale(agg, ct_paths, average) ==
    IF average THEN ctxt_mul_scalar(agg, Len(ct_paths)) ELSE agg

\* "global_avg.ct" if average else "global_sum.ct"
aggregate_out_path(average) == IF average THEN "global_avg.ct" ELSE "global_sum.ct"

\* HE = load_for_server()
AggServer ==
    /\ Running /\ op.name = "aggregate_ciphertexts" /\ op.pc = "server"
    /\ LET r == load_for_server(keyDir) IN
        /\ op' = IF r.ok THEN [op EXCEPT !.HE = r.HE, !.pc = "first"]
                 ELSE Raise(op, "FileNotFoundError", "load_for_server")
        /\ hist' = [hist EXCEPT !.keyReads = @ \cup {<<op.name, f>> : f \in r.reads}]
    /\ UNCHANGED <<probe, inputs, keyDir, ctDir, globalDir, nextKey, main, procs>>

\* agg = PyCtxt(pyfhel=HE, serialized=True, fileName=ct_paths[0])
AggFirst ==
    /\ Running /\ op.name = "aggregate_ciphertexts" /\ op.pc = "first"
    /\ op' = IF op.ct_paths = <<>>
             THEN Raise(op, "IndexError", "ct_paths[0]")
             ELSE IF ctDir[op.ct_paths[1]] = None
             THEN Raise(op, "FileNotFoundError", "load")
             ELSE [op EXCEPT !.agg = The(ctDir[op.ct_paths[1]]), !.pc = "add",
                             !.rest = aggregate_rest(op.ct_paths), !.i = 1]
    /\ UNCHANGED <<probe, inputs, keyDir, ctDir, globalDir, nextKey, main, hist, procs>>

\* for p in ct_paths[1:]: c = PyCtxt(...fileName=p); agg += c
AggAdd ==
    /\ Running /\ op.name = "aggregate_ciphertexts" /\ op.pc = "add"
    /\ op.i <= Len(op.rest)
    /\ LET p == op.rest[op.i] IN
       op' = IF ctDir[p] = None
             THEN Raise(op, "FileNotFoundError", "load")
             ELSE [op EXCEPT !.agg = ctxt_add(op.agg, The(ctDir[p])),
                             !.i = op.i + 1, !.adds = op.adds + 1]
    /\ UNCHANGED <<probe, inputs, keyDir, ctDir, globalDir, nextKey, main, hist, procs>>

\* if average: agg *= (1.0 / len(ct_paths))
AggScale ==
    /\ Running /\ op.name = "aggregate_ciphertexts" /\ op.pc = "add"
    /\ op.i > Len(op.rest)
    /\ op' = [op EXCEPT !.agg = aggregate_scale(op.agg, op.ct_paths, op.average),
                        !.before_mul = op.agg,
                        !.muls = IF op.average THEN op.muls + 1 ELSE op.muls,
                        !.pc = "save"]
    /\ UNCHANGED <<probe, inputs, keyDir, ctDir, globalDir, nextKey, main, hist, procs>>

\* agg.save(out_path); return out_path
AggSave ==
    /\ Running /\ op.name = "aggregate_ciphertexts" /\ op.pc = "save"
    /\ LET out_path == aggregate_out_path(op.average) IN
        /\ ctDir' = [ctDir EXCEPT ![out_path] = Some(op.agg)]
        /\ hist' = [hist EXCEPT !.written = @ \cup {out_path}]
        /\ op' = Return(op, out_path)
    /\ UNCHANGED <<probe, inputs, keyDir, globalDir, nextKey, main, procs>>

-----------------------------------------------------------------------------
(* decrypt_ciphertext_to_csv(ct_path, canonical_features) *)

StartDecrypt(ct_path, canonical_features) ==
    [Idle EXCEPT !.name = "decrypt_ciphertext_to_csv", !.pc = "decrypt",
                 !.status = "running",
                 !.ct_path = ct_path, !.canonical_features = canonical_features]

\* A faulty variant: it lets a shorter feature list through.
features_match_Shorter(canonical_features, vec) == Len(canonical_features) <= Len(vec)

\* not (len(canonical_features) != len(vec))
features_match(canonical_features, vec) == Len(canonical_features) = Len(vec)

\* pd.DataFrame({"Index": np.arange(len(vec)), "Value": vec})
IndexFrame(vec) == [i \in 1..Len(vec) |-> [Index |-> i - 1, Value |-> vec[i]]]

\* pd.DataFrame({"Feature": canonical_features, "Coefficient": vec})
NamedFrame(canonical_features, vec) ==
    [i \in 1..Len(canonical_features) |->
        [Feature |-> canonical_features[i], Coefficient |-> vec[i]]]

\* HE = load_for_decrypt(); ctxt = PyCtxt(...); vec = HE.decryptFrac(ctxt);
\* global_weights.csv is written before the lengths are compared
DecDecrypt ==
    /\ Running /\ op.name = "decrypt_ciphertext_to_csv" /\ op.pc = "decrypt"
    /\ LET r == load_for_decrypt(keyDir) IN
       IF ~r.ok
       THEN /\ op' = Raise(op, "FileNotFoundError", "load_for_decrypt")
            /\ hist' = [hist EXCEPT !.keyReads = @ \cup {<<op.name, f>> : f \in r.reads}]
            /\ UNCHANGED globalDir
       ELSE IF ctDir[op.ct_path] = None
       THEN /\ op' = Raise([op EXCEPT !.HE = r.HE], "FileNotFoundError", "load")
            /\ hist' = [hist EXCEPT !.keyReads = @ \cup {<<op.name, f>> : f \in r.reads}]
            /\ UNCHANGED globalDir
       ELSE LET vec == decryptFrac(r.HE, The(ctDir[op.ct_path])) IN
            /\ op' = [op EXCEPT !.HE = r.HE, !.vec = vec, !.pc = "named"]
            /\ globalDir' = [globalDir EXCEPT
                               !["global_weights.csv"] = Some(IndexFrame(vec))]
            /\ hist' = [hist EXCEPT
                          !.keyReads = @ \cup {<<op.name, f>> : f \in r.reads},
                          !.written = @ \cup {"global_weights.csv"}]
    /\ UNCHANGED <<probe, inputs, keyDir, ctDir, nextKey, main, procs>>

\* if len(canonical_features) != len(vec): raise ValueError(...); write
\* global_weights_named.csv; return out_csv_idx, out_csv_named
DecNamed ==
    /\ Running /\ op.name = "decrypt_ciphertext_to_csv" /\ op.pc = "named"
    /\ IF ~features_match(op.canonical_features, op.vec)
       THEN /\ op' = Raise(op, "ValueError: Length mismatch", "length_check")
            /\ UNCHANGED <<globalDir, hist>>
       ELSE /\ globalDir' = [globalDir EXCEPT !["global_weights_named.csv"] =
                                Some(NamedFrame(op.canonical_features, op.vec))]
            /\ hist' = [hist EXCEPT !.written = @ \cup {"global_weights_named.csv"}]
            /\ op' = Return(op, <<"global_weights.csv", "global_weights_named.csv">>)
    /\ UNCHANGED <<probe, inputs, keyDir, ctDir, nextKey, main, procs>>

OpStep ==
    \/ EncKeygen \/ EncVector \/ EncEncrypt \/ EncVerify
    \/ AggServer \/ AggFirst \/ AggAdd \/ AggScale \/ AggSave
    \/ DecDecrypt \/ DecNamed

-----------------------------------------------------------------------------
(* main() *)

\* A faulty variant: it aggregates whatever the two lengths are.
lengths_agree_Unchecked(len1, len2) == TRUE

\* not (len1 != len2)
lengths_agree(len1, len2) == len1 = len2

NoMain == [pc |-> "none", ct1 |-> "", ct2 |-> "", global_ct |-> ""]

MainRunning == main.pc \notin {"none", "done", "failed"}

\* ensure_dirs(); parse_args(); the two os.path.exists checks;
\* ct1 = encrypt_weights_csv(args.h1, "hospital1.ct", verify=args.verify)
MainStart ==
    /\ main.pc = "start"
    /\ IF inputs.h1.exists /\ inputs.h2.exists
       THEN /\ main' = [main EXCEPT !.pc = "ct1"]
            /\ op' = StartEncrypt(inputs.h1, "hospital1.ct", inputs.verify)
            /\ hist' = Executed("encrypt_weights_csv")
       ELSE /\ main' = [main EXCEPT !.pc = "failed"]
            /\ op' = [op EXCEPT !.err = "FileNotFoundError"]
            /\ UNCHANGED hist
    /\ UNCHANGED <<probe, inputs, keyDir, ctDir, globalDir, nextKey, procs>>

\* ct2 = encrypt_weights_csv(args.h2, "hospital2.ct", verify=args.verify)
MainEncrypt2 ==
    /\ main.pc = "ct1" /\ op.status = "ok"
    /\ main' = [main EXCEPT !.pc = "ct2", !.ct1 = op.ret]
    /\ op' = StartEncrypt(inputs.h2, "hospital2.ct", inputs.verify)
    /\ UNCHANGED <<probe, inputs, keyDir, ctDir, globalDir, nextKey, hist, procs>>

\* len1, len2; raise ValueError on mismatch;
\* global_ct = aggregate_ciphertexts([ct1, ct2], average=(not args.do_sum))
MainAggregate ==
    /\ main.pc = "ct2" /\ op.status = "ok"
    /\ IF lengths_agree(Len(weights_csv_to_vector(inputs.h1.df)),
                        Len(weights_csv_to_vector(inputs.h2.df)))
       THEN /\ main' = [main EXCEPT !.pc = "global_ct", !.ct2 = op.ret]
            /\ op' = StartAggregate(<<main.ct1, op.ret>>, ~inputs.do_sum)
            /\ hist' = Executed("aggregate_ciphertexts")
       ELSE /\ main' = [main EXCEPT !.pc = "failed"]
            /\ op' = [op EXCEPT !.err = "ValueError: Weight vector length mismatch"]
            /\ UNCHANGED hist
    /\ UNCHANGED <<probe, inputs, keyDir, ctDir, globalDir, nextKey, procs>>

\* canonical_feats = weights_csv_feature_names(args.h1);
\* decrypt_ciphertext_to_csv(global_ct, canonical_feats)
MainDecrypt ==
    /\ main.pc = "global_ct" /\ op.status = "ok"
    /\ main' = [main EXCEPT !.pc = "decrypt", !.global_ct = op.ret]
    /\ op' = StartDecrypt(op.ret, weights_csv_feature_names(inputs.h1.df))
    /\ hist' = Executed("decrypt_ciphertext_to_csv")
    /\ UNCHANGED <<probe, inputs, keyDir, ctDir, globalDir, nextKey, procs>>

\* print("Done ...")
MainDone ==
    /\ main.pc = "decrypt" /\ op.status = "ok"
    /\ main' = [main EXCEPT !.pc = "done"]
    /\ UNCHANGED <<probe, inputs, keyDir, ctDir, globalDir, nextKey, op, hist, procs>>

\* An exception raised inside an operation leaves main uncaught.
MainRaise ==
    /\ MainRunning /\ op.status = "error"
    /\ main' = [main EXCEPT !.pc = "failed"]
    /\ UNCHANGED <<probe, inputs, keyDir, ctDir, globalDir, nextKey, op, hist, procs>>

-----------------------------------------------------------------------------
(* Inputs of main and of callers of the API *)

\* A weights CSV as the training scripts write it: one row per feature,
\* the intercept last.
CsvFromVector(v) ==
    CsvOf(TRUE, TRUE,
          [i \in 1..Len(v) |->
              [Feature |-> IF i = Len(v) THEN "Intercept" ELSE FName(i - 1),
               Coefficient |-> v[i]]])

Ones(n) == [i \in 1..n |-> 1]

\* [1.0, 2.0, 0.5] and [3.0, -1.0, 1.5], counted in halves
Example1 == <<2, 4, 1>>
Example2 == <<6, -2, 3>>

\* Vectors of every length up to one more than a ciphertext holds
InputVectors == {Example1, Example2} \cup {Ones(n) : n \in 1..(NSlots + 1)}

InputFiles ==
    {NoFile, FileOf(CsvOf(TRUE, FALSE, CsvFromVector(Ones(2)).rows))}
    \cup {FileOf(CsvFromVector(v)) : v \in InputVectors}

NoHist ==
    [executed |-> {}, keyReads |-> {}, written |-> {}, calls |-> 0,
     plain |-> [p \in CtPaths |-> <<>>]]

NoProbe == [status |-> "none", df |-> CsvOf(FALSE, FALSE, <<>>), names |-> <<>>, vec |-> <<>>]
NoInputs == [h1 |-> NoFile, h2 |-> NoFile, do_sum |-> FALSE, verify |-> FALSE]
NoProcs == <<>>

\* The key directory is empty, or holds the files of an earlier run.
KeyDirs == {NoKeys, keygen_if_missing(NoKeys, 1).keyDir}

InitMain ==
    /\ inputs \in [h1 : InputFiles, h2 : InputFiles, do_sum : BOOLEAN, verify : BOOLEAN]
    /\ keyDir \in KeyDirs
    /\ nextKey = 2
    /\ ctDir = [p \in CtPaths |-> None]
    /\ globalDir = [f \in {"global_weights.csv", "global_weights_named.csv"} |-> None]
    /\ op = Idle
    /\ main = [NoMain EXCEPT !.pc = "start"]
    /\ hist = NoHist
    /\ probe = NoProbe
    /\ procs = NoProcs

NextMain ==
    \/ MainStart \/ MainEncrypt2 \/ MainAggregate \/ MainDecrypt \/ MainDone \/ MainRaise
    \/ OpStep

\* main is one sequential program: it keeps running until it ends.
SpecMain == InitMain /\ [][NextMain]_vars /\ WF_vars(NextMain)

-----------------------------------------------------------------------------
(* A caller that invokes the three operations directly *)

\* What the parties encrypted before: nothing (<<>>), or one of these.
StoredVectors == {Example1, Example2, Ones(1)}
Stores == [PartyCts -> StoredVectors \cup {<<>>}]

\* The state encrypt_weights_csv leaves behind for the vectors of `store`
StoredCtxt(v) == encryptPtxt(keygen_if_missing(NoKeys, 1).HE, encodeVec(v))

CallerFiles ==
    {NoFile, FileOf(CsvOf(TRUE, FALSE, CsvFromVector(Ones(2)).rows)),
     FileOf(CsvFromVector(Example1)), FileOf(CsvFromVector(Ones(NSlots + 1)))}

FeatureList(n) == [i \in 1..n |-> FName(i - 1)]

InitApi ==
    /\ \E store \in Stores :
         /\ keyDir = IF \A p \in PartyCts : store[p] = <<>>
                     THEN NoKeys ELSE keygen_if_missing(NoKeys, 1).keyDir
         /\ ctDir = [p \in CtPaths |->
                       IF p \in PartyCts /\ store[p] # <<>>
                       THEN Some(StoredCtxt(store[p])) ELSE None]
         /\ hist = [NoHist EXCEPT !.plain =
                       [p \in CtPaths |-> IF p \in PartyCts THEN store[p] ELSE <<>>]]
    /\ nextKey = 2
    /\ globalDir = [f \in {"global_weights.csv", "global_weights_named.csv"} |-> None]
    /\ op = Idle
    /\ main = NoMain
    /\ inputs = NoInputs
    /\ probe = NoProbe
    /\ procs = NoProcs

CanCall == main.pc = "none" /\ ~Running /\ hist.calls < MaxCalls

\* A call starts a new run: executed and written are those of the call.
Called(name) == [hist EXCEPT !.executed = {name}, !.written = {}, !.calls = @ + 1]

CallEncrypt ==
    /\ CanCall
    /\ \E file \in CallerFiles, out_name \in PartyCts, verify \in BOOLEAN :
          op' = StartEncrypt(file, out_name, verify)
    /\ hist' = Called("encrypt_weights_csv")
    /\ UNCHANGED <<probe, inputs, keyDir, ctDir, globalDir, nextKey, main, procs>>

CallAggregate ==
    /\ CanCall
    /\ \E ct_paths \in SeqsUpTo(PartyCts, MaxPaths) \cup {<<>>}, average \in BOOLEAN :
          op' = StartAggregate(ct_paths, average)
    /\ hist' = Called("aggregate_ciphertexts")
    /\ UNCHANGED <<probe, inputs, keyDir, ctDir, globalDir, nextKey, main, procs>>

CallDecrypt ==
    /\ CanCall
    /\ \E ct_path \in CtPaths, n \in 0..(NSlots + 1) :
          op' = StartDecrypt(ct_path, FeatureList(n))
    /\ hist' = Called("decrypt_ciphertext_to_csv")
    /\ UNCHANGED <<probe, inputs, keyDir, ctDir, globalDir, nextKey, main, procs>>

NextApi == CallEncrypt \/ CallAggregate \/ CallDecrypt \/ OpStep

SpecApi == InitApi /\ [][NextApi]_vars

-----------------------------------------------------------------------------
(* Two concurrent calls of encrypt_weights_csv.  Each os.path.exists, each  *)
(* load and each save of keygen_if_missing is a step of its own.            *)

ProcIds == {1, 2}

ProcCall(p) ==
    IF p = 1 THEN [weights_csv |-> FileOf(CsvFromVector(Example1)), out_name |-> "hospital1.ct"]
             ELSE [weights_csv |-> FileOf(CsvFromVector(Example2)), out_name |-> "hospital2.ct"]

InitConc ==
    /\ keyDir \in KeyDirs
    /\ nextKey = 2
    /\ ctDir = [p \in CtPaths |-> None]
    /\ procs = [p \in ProcIds |-> [pc |-> "exists_ctx", HE |-> Pyfhel]]
    /\ globalDir = [f \in {"global_weights.csv", "global_weights_named.csv"} |-> None]
    /\ op = Idle
    /\ main = NoMain
    /\ inputs = NoInputs
    /\ hist = NoHist
    /\ probe = NoProbe

ConcUnchanged == UNCHANGED <<probe, inputs, globalDir, op, main>>

\* File each step of keygen_if_missing works on, and the handle field
KeyFileAt(pc) ==
    CASE pc \in {"exists_ctx", "load_ctx", "save_ctx"} -> "ckks_context.bin"
      [] pc \in {"exists_pub", "load_pub", "save_pub"} -> "ckks_public.key"
      [] OTHER -> "ckks_secret.key"

\* os.path.exists(ctx_path) and os.path.exists(pub_path) and os.path.exists(sec_path)
ConcExists(p) ==
    /\ procs[p].pc \in {"exists_ctx", "exists_pub", "exists_sec"}
    /\ procs' = [procs EXCEPT ![p].pc =
                    IF keyDir[KeyFileAt(procs[p].pc)] = None THEN "gen"
                    ELSE CASE procs[p].pc = "exists_ctx" -> "exists_pub"
                           [] procs[p].pc = "exists_pub" -> "exists_sec"
                           [] OTHER -> "load_ctx"]
    /\ UNCHANGED <<keyDir, ctDir, nextKey, hist>>
    /\ ConcUnchanged

\* HE.contextLoad, HE.restorepublicKey, HE.restoresecretKey
ConcLoad(p) ==
    /\ procs[p].pc \in {"load_ctx", "load_pub", "load_sec"}
    /\ LET f == KeyFileAt(procs[p].pc) IN
       /\ procs' = [procs EXCEPT
                      ![p].HE = CASE procs[p].pc = "load_ctx" -> [@ EXCEPT !.ctx = keyDir[f]]
                                  [] procs[p].pc = "load_pub" -> [@ EXCEPT !.pub = keyDir[f]]
                                  [] OTHER -> [@ EXCEPT !.sec = keyDir[f]],
                      ![p].pc = CASE procs[p].pc = "load_ctx" -> "load_pub"
                                  [] procs[p].pc = "load_pub" -> "load_sec"
                                  [] OTHER -> "encrypt"]
       /\ hist' = [hist EXCEPT !.keyReads = @ \cup {<<"encrypt_weights_csv", f>>}]
    /\ UNCHANGED <<keyDir, ctDir, nextKey>>
    /\ ConcUnchanged

\* HE.contextGen(...); HE.keyGen(): a key pair nobody else has
ConcKeyGen(p) ==
    /\ procs[p].pc = "gen"
    /\ procs' = [procs EXCEPT
                   ![p].HE = [ctx |-> Some(ContextParams), pub |-> Some(nextKey),
                              sec |-> Some(nextKey)],
                   ![p].pc = "save_ctx"]
    /\ nextKey' = nextKey + 1
    /\ UNCHANGED <<keyDir, ctDir, hist>>
    /\ ConcUnchanged

\* HE.contextSave, HE.savepublicKey, HE.savesecretKey
ConcSave(p) ==
    /\ procs[p].pc \in {"save_ctx", "save_pub", "save_sec"}
    /\ LET f == KeyFileAt(procs[p].pc) IN
       /\ keyDir' = [keyDir EXCEPT ![f] =
                        CASE procs[p].pc = "save_ctx" -> procs[p].HE.ctx
                          [] procs[p].pc = "save_pub" -> procs[p].HE.pub
                          [] OTHER -> procs[p].HE.sec]
       /\ hist' = [hist EXCEPT !.written = @ \cup {f}]
    /\ procs' = [procs EXCEPT ![p].pc =
                    CASE procs[p].pc = "save_ctx" -> "save_pub"
                      [] procs[p].pc = "save_pub" -> "save_sec"
                      [] OTHER -> "encrypt"]
    /\ UNCHANGED <<ctDir, nextKey>>
    /\ ConcUnchanged

\* vec, ptxt, ctxt, ctxt.save(out_path), return out_path
ConcEncrypt(p) ==
    /\ procs[p].pc = "encrypt"
    /\ LET vec == weights_csv_to_vector(ProcCall(p).weights_csv.df)
           ctxt == encryptPtxt(procs[p].HE, encodeVec(vec)) IN
       /\ ctDir' = [ctDir EXCEPT ![ProcCall(p).out_name] = Some(ctxt)]
       /\ hist' = [hist EXCEPT !.written = @ \cup {ProcCall(p).out_name},
                               !.plain = [@ EXCEPT ![ProcCall(p).out_name] = vec]]
    /\ procs' = [procs EXCEPT ![p].pc = "done"]
    /\ UNCHANGED <<keyDir, nextKey>>
    /\ ConcUnchanged

NextConc ==
    \E p \in ProcIds :
        \/ ConcExists(p) \/ ConcLoad(p) \/ ConcKeyGen(p) \/ ConcSave(p) \/ ConcEncrypt(p)

SpecConc == InitConc /\ [][NextConc]_vars

-----------------------------------------------------------------------------
(* The two CSV readers applied to one file *)

InitCsv ==
    /\ probe \in {[NoProbe EXCEPT !.status = "input", !.df = df] : df \in AllCsvs}
    /\ keyDir = NoKeys
    /\ nextKey = 1
    /\ ctDir = [p \in CtPaths |-> None]
    /\ globalDir = [f \in {"global_weights.csv", "global_weights_named.csv"} |-> None]
    /\ op = Idle
    /\ main = NoMain
    /\ inputs = NoInputs
    /\ hist = NoHist
    /\ procs = NoProcs

\* weights_csv_to_vector(path) and weights_csv_feature_names(path)
ReadCsv ==
    /\ probe.status = "input"
    /\ probe' = IF find_coef_column_ok(probe.df)
                THEN [probe EXCEPT !.status = "read",
                                   !.vec = weights_csv_to_vector(probe.df),
                                   !.names = weights_csv_feature_names(probe.df)]
                ELSE [probe EXCEPT !.status = "ValueError"]
    /\ UNCHANGED <<inputs, keyDir, ctDir, globalDir, nextKey, op, main, hist, procs>>

NextCsv == ReadCsv

SpecCsv == InitCsv /\ [][NextCsv]_vars

-----------------------------------------------------------------------------
(* Claims *)

\* The intercept of a weights file: the coefficient of its first row named
\* "intercept" in any letter case, and of its last row when it has none.
InterceptRow(df) ==
    IF df.hasFeature /\ (\E j \in 1..Len(df.rows) : Lower(df.rows[j].Feature) = "intercept")
    THEN CHOOSE j \in 1..Len(df.rows) :
            /\ Lower(df.rows[j].Feature) = "intercept"
            /\ \A k \in 1..(j - 1) : Lower(df.rows[k].Feature) # "intercept"
    ELSE Len(df.rows)

\* C10: for a weights CSV with at least one row, the names and the vector
\* have the same length, the last name is "Intercept", the last value is the
\* intercept, and every earlier position holds the Feature and the
\* Coefficient of one and the same row, rows kept in file order (without a
\* Feature column the name at position i is the synthesized f<i>).
C10_NamesMatchVector ==
    probe.status = "read" =>
        LET df == probe.df
            n == Len(probe.vec) IN
        /\ Len(probe.names) = n
        /\ n >= 1
        /\ probe.names[n] = "Intercept"
        /\ probe.vec[n] = df.rows[InterceptRow(df)].Coefficient
        /\ IF df.hasFeature
           THEN \E row \in [1..(n - 1) -> 1..Len(df.rows)] :
                   /\ \A i \in 1..(n - 1) :
                         /\ probe.names[i] = df.rows[row[i]].Feature
                         /\ probe.vec[i] = df.rows[row[i]].Coefficient
                   /\ \A i \in 1..(n - 1), k \in 1..(n - 1) : i < k => row[i] < row[k]
           ELSE \A i \in 1..(n - 1) :
                   /\ probe.names[i] = FName(i - 1)
                   /\ probe.vec[i] = df.rows[i].Coefficient

\* C10 witness: a file with two intercept rows, the first row being one of
\* them and the last row not, has been read.
C10_Witness ==
    /\ probe.status = "read"
    /\ probe.df.hasFeature
    /\ Len(probe.df.rows) = 3
    /\ probe.df.rows[1].Feature = "INTERCEPT"
    /\ probe.df.rows[2].Feature = "Intercept"
    /\ probe.df.rows[3].Feature = "age"
    /\ probe.df.rows[1].Coefficient # probe.df.rows[3].Coefficient
    /\ Len(probe.vec) = 2

\* C1: the handle aggregate_ciphertexts works with holds the context and the
\* public key and never a secret key, and no step of the aggregation reads
\* the secret key file, whatever the list of paths and the average flag.
C1_ServerNeverHoldsSecretKey ==
    /\ op.name = "aggregate_ciphertexts" =>
          /\ op.HE.sec = None
          /\ op.pc \in {"first", "add", "save", "returned"} =>
                /\ op.HE.ctx = keyDir["ckks_context.bin"] /\ op.HE.ctx # None
                /\ op.HE.pub = keyDir["ckks_public.key"] /\ op.HE.pub # None
    /\ \A e \in hist.keyReads :
          e[1] = "aggregate_ciphertexts" => e[2] # "ckks_secret.key"

\* C1 witness: an average over three ciphertexts has been saved while the
\* secret key file was on disk.
C1_Witness ==
    /\ op.name = "aggregate_ciphertexts" /\ op.status = "ok" /\ op.average
    /\ Len(op.ct_paths) = 3
    /\ keyDir["ckks_secret.key"] # None
    /\ <<"aggregate_ciphertexts", "ckks_public.key">> \in hist.keyReads

\* Sum of entry i of the vectors the parties encrypted into `paths`
RECURSIVE SumAt(_, _)
SumAt(paths, i) ==
    IF paths = <<>> THEN 0 ELSE hist.plain[Head(paths)][i] + SumAt(Tail(paths), i)

SameLengths(paths) ==
    \A j \in 1..Len(paths) :
        /\ hist.plain[paths[j]] # <<>>
        /\ Len(hist.plain[paths[j]]) = Len(hist.plain[paths[1]])

\* [2.0, 0.5, 1.0] counted in halves
ExampleAverage == <<4, 1, 2>>

\* C2: for a non-empty list of n ciphertexts of equal-length vectors, the
\* saved aggregate decrypts, entry by entry, to the sum of the n vectors
\* (each path of the list counted once) when average is false and to that
\* sum divided by n when average is true; the slots past the vectors' length
\* stay 0; [1.0, 2.0, 0.5] and [3.0, -1.0, 1.5] average to [2.0, 0.5, 1.0].
C2_AggregateIsSumOrAverage ==
    (/\ op.name = "aggregate_ciphertexts" /\ op.status = "ok"
     /\ op.ct_paths # <<>> /\ SameLengths(op.ct_paths)) =>
        LET saved == The(ctDir[op.ret])
            n == Len(op.ct_paths)
            len == Len(hist.plain[op.ct_paths[1]]) IN
        /\ op.ret = IF op.average THEN "global_avg.ct" ELSE "global_sum.ct"
        /\ saved.den = IF op.average THEN n ELSE 1
        /\ \A i \in 1..NSlots :
              saved.slots[i] = IF i <= len THEN SumAt(op.ct_paths, i) ELSE 0
        /\ (/\ n = 2 /\ op.average
            /\ hist.plain[op.ct_paths[1]] = Example1
            /\ hist.plain[op.ct_paths[2]] = Example2) =>
              \A i \in 1..3 : saved.slots[i] = ExampleAverage[i] * saved.den

\* C2 witness: the average of the two example vectors has been saved.
C2_Witness ==
    /\ op.name = "aggregate_ciphertexts" /\ op.status = "ok" /\ op.average
    /\ Len(op.ct_paths) = 2
    /\ hist.plain[op.ct_paths[1]] = Example1
    /\ hist.plain[op.ct_paths[2]] = Example2
    /\ ctDir["global_avg.ct"] # None

\* C4: a call of decrypt_ciphertext_to_csv whose feature list and decrypted
\* vector differ in length ends with the length-mismatch error without
\* writing global_weights_named.csv; a named output the call writes has one
\* row per feature name and per decrypted value, in order.
C4_LengthMismatchRaises ==
    (op.name = "decrypt_ciphertext_to_csv" /\ op.pc \in {"raised", "returned"}
        /\ op.vec # <<>>) =>
        /\ Len(op.canonical_features) # Len(op.vec) =>
              /\ op.status = "error"
              /\ op.err = "ValueError: Length mismatch"
              /\ "global_weights_named.csv" \notin hist.written
        /\ "global_weights_named.csv" \in hist.written =>
              LET named == The(globalDir["global_weights_named.csv"]) IN
              /\ op.status = "ok"
              /\ Len(named) = Len(op.canonical_features)
              /\ Len(named) = Len(op.vec)
              /\ \A i \in 1..Len(named) :
                    /\ named[i].Feature = op.canonical_features[i]
                    /\ named[i].Coefficient = op.vec[i]

\* C4 witness: a call with too few feature names has ended in the error,
\* after an earlier call with the right number wrote the named output.
C4_Witness ==
    /\ op.name = "decrypt_ciphertext_to_csv" /\ op.status = "error"
    /\ op.err = "ValueError: Length mismatch"
    /\ Len(op.canonical_features) < Len(op.vec)
    /\ globalDir["global_weights_named.csv"] # None
    /\ Len(The(globalDir["global_weights_named.csv"])) = NSlots

\* C7 (as claimed): the average saved by aggregate_ciphertexts has the scale
\* the aggregate had before the multiplication by 1/n and is one level lower.
C7_RescaledAfterMultiply ==
    (op.name = "aggregate_ciphertexts" /\ op.status = "ok" /\ op.average) =>
        /\ The(ctDir["global_avg.ct"]).scale_bits = op.before_mul.scale_bits
        /\ The(ctDir["global_avg.ct"]).level = op.before_mul.level + 1

\* C8 (as claimed): no operation returns successfully after a failure
\* occurred inside it.
C8_EveryFailurePropagates == op.status = "ok" => op.failed = {}

\* C8 (amended): a failure inside an operation ends it in error, except a
\* failure of the verification decrypt of encrypt_weights_csv, which is
\* caught: the operation then returns the ciphertext path.  Nothing is
\* retried: an operation that ended in error takes no further step.
C8_FailuresPropagateExceptVerify ==
    [][/\ op'.status = "ok" => op'.failed \subseteq {"verify"}
       /\ op'.failed \ {"verify"} # {} => op'.status = "error"
       /\ "verify" \in op'.failed =>
             op'.name = "encrypt_weights_csv" /\ op'.ret = op'.out_name
       /\ (op.status = "error" /\ op' # op) =>
             op'.failed = {} /\ op'.pc \in {"keygen", "server", "decrypt"}]_vars

\* C8 witness: encrypt_weights_csv has returned its path although the
\* verification decrypt raised.
C8_Witness ==
    /\ op.name = "encrypt_weights_csv" /\ op.status = "ok"
    /\ op.failed = {"verify"}
    /\ ctDir[op.out_name] # None

Lifecycle(o) ==
    IF o.muls > 0 THEN 3 ELSE IF o.adds > 0 THEN 2 ELSE 1

\* C9: during aggregate_ciphertexts an addition leaves level and scale as
\* they are and is never applied to a scaled ciphertext; the multiplication
\* happens at most once, after all n - 1 additions; the life cycle never
\* moves backwards; a saved sum is at the level and scale of a fresh
\* ciphertext.
C9_LifecycleOnlyForward ==
    [][(op.name = "aggregate_ciphertexts" /\ op'.name = "aggregate_ciphertexts"
            /\ op.status = "running") =>
        /\ op'.adds # op.adds =>
              /\ op'.adds = op.adds + 1
              /\ op.muls = 0
              /\ op'.agg.level = op.agg.level
              /\ op'.agg.scale_bits = op.agg.scale_bits
        /\ op'.muls <= 1
        /\ op'.muls # op.muls =>
              /\ op.adds = Len(op.ct_paths) - 1
              /\ op'.adds = op.adds
        /\ op.pc \in {"add", "save"} => Lifecycle(op') >= Lifecycle(op)
        /\ (op'.status = "ok" /\ ~op.average) =>
              /\ op'.muls = 0
              /\ The(ctDir'["global_sum.ct"]).level = 0
              /\ The(ctDir'["global_sum.ct"]).scale_bits = ScaleBits
              /\ The(ctDir'["global_sum.ct"]).den = 1]_vars

\* C9 witness: an average of three ciphertexts went through two additions
\* and then one multiplication.
C9_Witness ==
    /\ op.name = "aggregate_ciphertexts" /\ op.status = "ok" /\ op.average
    /\ op.adds = 2 /\ op.muls = 1

\* Inputs of main for which it has to stop: a path that does not exist, or
\* two weight vectors of different lengths
InputMissing == ~inputs.h1.exists \/ ~inputs.h2.exists

LengthsDiffer ==
    /\ inputs.h1.exists /\ inputs.h2.exists
    /\ find_coef_column_ok(inputs.h1.df) /\ find_coef_column_ok(inputs.h2.df)
    /\ Len(weights_csv_to_vector(inputs.h1.df)) # Len(weights_csv_to_vector(inputs.h2.df))

GlobalOutputs == GlobalCts \cup {"global_weights.csv", "global_weights_named.csv"}

\* C3: in a run of main with a missing input path or with weight vectors of
\* different lengths, aggregate_ciphertexts and decrypt_ciphertext_to_csv
\* are never executed, no global ciphertext and no global weights file is
\* written, and main ends with an error.
C3_BadInputsStopMain ==
    /\ [](main.pc # "none" /\ (InputMissing \/ LengthsDiffer) =>
            /\ "aggregate_ciphertexts" \notin hist.executed
            /\ "decrypt_ciphertext_to_csv" \notin hist.executed
            /\ hist.written \cap GlobalOutputs = {}
            /\ \A f \in GlobalOutputs \cap CtPaths : ctDir[f] = None
            /\ globalDir["global_weights.csv"] = None
            /\ globalDir["global_weights_named.csv"] = None
            /\ main.pc # "done")
    /\ (main.pc # "none" /\ (InputMissing \/ LengthsDiffer)) ~> (main.pc = "failed")

\* C3 witness: main has stopped on the length check, after encrypting both
\* vectors.
C3_Witness ==
    /\ main.pc = "failed" /\ LengthsDiffer
    /\ op.err = "ValueError: Weight vector length mismatch"
    /\ ctDir["hospital1.ct"] # None /\ ctDir["hospital2.ct"] # None

\* C5 (as claimed): when both input files exist and yield vectors of the
\* same length n (which a ciphertext can hold), main ends successfully, the
\* decrypted vector has n entries, and global_weights_named.csv has n rows
\* named after the first party's features.
C5_MainSucceeds ==
    (/\ main.pc \in {"done", "failed"}
     /\ inputs.h1.exists /\ inputs.h2.exists
     /\ find_coef_column_ok(inputs.h1.df) /\ find_coef_column_ok(inputs.h2.df)
     /\ Len(weights_csv_to_vector(inputs.h1.df)) = Len(weights_csv_to_vector(inputs.h2.df))
     /\ encode_fits(weights_csv_to_vector(inputs.h1.df))) =>
        LET n == Len(weights_csv_to_vector(inputs.h1.df)) IN
        /\ main.pc = "done"
        /\ Len(op.vec) = n
        /\ globalDir["global_weights_named.csv"] # None
        /\ Len(The(globalDir["global_weights_named.csv"])) = n
        /\ \A i \in 1..n :
              The(globalDir["global_weights_named.csv"])[i].Feature
                  = weights_csv_feature_names(inputs.h1.df)[i]

\* C6 (as claimed): when two concurrent encrypt_weights_csv calls have both
\* finished, the two ciphertexts are under one key pair, and the public and
\* the secret key file on disk hold that pair.
C6_ConcurrentEncryptSameKey ==
    (\A p \in ProcIds : procs[p].pc = "done") =>
        /\ The(ctDir["hospital1.ct"]).key = The(ctDir["hospital2.ct"]).key
        /\ keyDir["ckks_context.bin"] = Some(ContextParams)
        /\ keyDir["ckks_public.key"] = Some(The(ctDir["hospital1.ct"]).key)
        /\ keyDir["ckks_secret.key"] = Some(The(ctDir["hospital1.ct"]).key)

=============================================================================
